---- MODULE Spec2Model ----
(***************************************************************************)
(* Bulk notification dispatcher of kr-updates-backend.                     *)
(*                                                                         *)
(*   sendNotification  (notification controller, src/unnamed/part_004)     *)
(*   sendBulkEmails    (src/src/services/emailService.js)                  *)
(*                                                                         *)
(* JavaScript runs one synchronous section at a time: an async function    *)
(* runs until its next await, and promise continuations, timers and        *)
(* transport completions run only when no synchronous section is active.   *)
(* Each action below is one such section (or one loop iteration of it);    *)
(* the guards SchedRunning / LoopIdle keep the run-to-completion order.    *)
(***************************************************************************)
EXTENDS Integers, Sequences, FiniteSets, TLC

(* ------------------------------------------------------------------ *)
(* Sizes.  The dispatcher's constants are 50, 10, 2000 and 500 in the   *)
(* code (emailService.js:53-55, part_004:504).  The exhaustive          *)
(* specifications run a build scaled down to the Small* values, which   *)
(* keep CONCURRENT_PER_BATCH < BATCH_SIZE and BATCH_SIZE + 1 <          *)
(* LARGE_BATCH_THRESHOLD as in the code, so a batch has several groups  *)
(* and both an immediate and a background job can have several batches; *)
(* the worked example runs the code's values.  MaxUsers is above the    *)
(* scaled threshold, so a background job can leave users out.           *)
(* ------------------------------------------------------------------ *)
SmallBatchSize == 3
SmallConcurrent == 2
SmallThreshold == 5
MaxUsers == 6
MaxLen == 5

Users == 1..MaxUsers

\* the value of a field that is not present
Absent == 0 - 1

VARIABLES
    (* environment *)
    tuning,         \* the constants the two functions declare
    other,          \* an earlier request's detached sendBulkEmails run, if any
    userDB,         \* User collection: [Users -> [active, verified]]
    req,            \* req.body and whether Post.findById finds the post
    smtpOk,         \* process.env.SMTP_USER and SMTP_PASS are both set
    (* sendNotification *)
    hpc,            \* position of the handler
    users,          \* the verified users selected (ids, in query order)
    totalUsers,
    unverifiedCount,
    emailList,      \* the list handed to sendBulkEmails (addresses)
    response,       \* what the caller has received
    bgLog,          \* what the background .then/.catch has logged
    (* sendBulkEmails *)
    spc,            \* position of the scheduler
    batches,
    batchIndex,
    gi,             \* the inner loop's i
    calls,          \* per batch, per entry: the transporter.sendMail promise
    settled,        \* per batch, per entry: the value of the async callback
    results,
    delays,         \* number of setTimeout pauses taken
    sent            \* the addresses transporter.sendMail was called with, in call order

envVars == <<tuning, other, userDB, req, smtpOk>>
handlerVars == <<hpc, users, totalUsers, unverifiedCount, response, bgLog>>
schedVars == <<batches, batchIndex, gi, calls, settled, results, delays, sent>>
vars == <<tuning, other, userDB, req, smtpOk, hpc, users, totalUsers, unverifiedCount,
          emailList, response, bgLog, spc, batches, batchIndex, gi, calls,
          settled, results, delays, sent>>

\* const BATCH_SIZE, CONCURRENT_PER_BATCH, DELAY_BETWEEN_BATCHES (sendBulkEmails) and
\* const LARGE_BATCH_THRESHOLD (sendNotification), as the code declares them
CodeTuning ==
    [BATCH_SIZE |-> 50, CONCURRENT_PER_BATCH |-> 10, DELAY_BETWEEN_BATCHES |-> 2000,
     LARGE_BATCH_THRESHOLD |-> 500]

\* the same declarations scaled down; the pause keeps its length
SmallTuning ==
    [BATCH_SIZE |-> SmallBatchSize, CONCURRENT_PER_BATCH |-> SmallConcurrent,
     DELAY_BETWEEN_BATCHES |-> 2000, LARGE_BATCH_THRESHOLD |-> SmallThreshold]

BATCH_SIZE == tuning.BATCH_SIZE
CONCURRENT_PER_BATCH == tuning.CONCURRENT_PER_BATCH
DELAY_BETWEEN_BATCHES == tuning.DELAY_BETWEEN_BATCHES
LARGE_BATCH_THRESHOLD == tuning.LARGE_BATCH_THRESHOLD

(* ------------------------------------------------------------------ *)
(* Pure helpers                                                        *)
(* ------------------------------------------------------------------ *)
Min(a, b) == IF a < b THEN a ELSE b

\* a slice whose end is inclusive: list.slice(from, to + 1)
SliceInclusiveEnd(list, from, to) ==
    LET hi == Min(to + 1, Len(list))
    IN  IF from >= hi THEN << >> ELSE SubSeq(list, from + 1, hi)

\* Array.prototype.slice(from, to) with 0-based from, exclusive to
Slice(list, from, to) ==
    LET hi == Min(to, Len(list))
    IN  IF from >= hi THEN << >> ELSE SubSeq(list, from + 1, hi)

\* the split loop with i <= list.length for i < list.length
RECURSIVE ChunkFromInclusive(_, _, _)
ChunkFromInclusive(list, size, i) ==
    IF i <= Len(list)
    THEN <<(IF i >= Min(i + size, Len(list)) THEN << >> ELSE SubSeq(list, i + 1, Min(i + size, Len(list))))>> \o ChunkFromInclusive(list, size, i + size)
    ELSE << >>

\* for (let i = 0; i < list.length; i += size) out.push(list.slice(i, i + size))
RECURSIVE ChunkFrom(_, _, _)
ChunkFrom(list, size, i) ==
    IF i < Len(list)
    THEN <<Slice(list, i, i + size)>> \o ChunkFrom(list, size, i + size)
    ELSE << >>

SplitBatches(list, size) == ChunkFrom(list, size, 0)

\* a flat() that keeps only the first group: batchResults[0] for batchResults.flat()
FlatFirstOnly(ss) == IF ss = << >> THEN << >> ELSE Head(ss)

\* Array.prototype.flat() on an array of arrays
RECURSIVE Flat(_)
Flat(ss) == IF ss = << >> THEN << >> ELSE Head(ss) \o Flat(Tail(ss))

\* results.filter(r => r.success).length / results.filter(r => !r.success).length
\* (Array.prototype.filter is SelectSeq)
SuccessCount(rs) == Len(SelectSeq(rs, LAMBDA r : r.success))
\* the failure filter with its negation lost: results.filter((r) => r.success)
FailureCountNoNegation(rs) == Len(SelectSeq(rs, LAMBDA r : r.success))

FailureCount(rs) == Len(SelectSeq(rs, LAMBDA r : ~r.success))

NoOutcome == [success |-> FALSE, email |-> Absent]

\* the callback with its catch branch reporting success as the try branch does
OutcomeAlwaysSuccess(address, res) == [success |-> TRUE, email |-> address]

\* the body of the async callback after transporter.sendMail settled:
\* the try branch returns success: true, the catch branch success: false
Outcome(address, res) == [success |-> (res = "ok"), email |-> address]

\* user.email: the User schema makes email unique; an address is named by its user
EmailOf(u) == u

(* ------------------------------------------------------------------ *)
(* Responses.  next(new AppError(msg, status)) reaches the caller as an *)
(* error response with that status; ApiResponse.success as status 200. *)
(* ------------------------------------------------------------------ *)
NoResponse ==
    [kind |-> "none", status |-> Absent, msg |-> "", total |-> Absent,
     totalRequested |-> Absent, unverifiedSkipped |-> Absent,
     processing |-> FALSE, success |-> Absent, failed |-> Absent,
     results |-> << >>, hasResults |-> FALSE]

\* next(new AppError(message, statusCode)); skipped is the count the message text carries
ErrorResponse(status, msg, skipped) ==
    [NoResponse EXCEPT !.kind = "error", !.status = status, !.msg = msg,
                       !.unverifiedSkipped = skipped]

\* an acknowledgement whose total counts every selected user: total: totalUsers
AckResponseTotalRequested ==
    [NoResponse EXCEPT !.kind = "success", !.status = 200, !.msg = "processing",
                       !.total = totalUsers, !.totalRequested = totalUsers,
                       !.unverifiedSkipped = unverifiedCount, !.processing = TRUE]

\* the background acknowledgement: total, totalRequested, unverifiedSkipped, processing
AckResponse ==
    [NoResponse EXCEPT !.kind = "success", !.status = 200, !.msg = "processing",
                       !.total = Len(users), !.totalRequested = totalUsers,
                       !.unverifiedSkipped = unverifiedCount, !.processing = TRUE]

\* the immediate report: total, totalRequested, unverifiedSkipped, success, failed, results
ReportResponse(rs) ==
    [NoResponse EXCEPT !.kind = "success", !.status = 200, !.msg = "sent",
                       !.total = Len(users), !.totalRequested = totalUsers,
                       !.unverifiedSkipped = unverifiedCount,
                       !.success = SuccessCount(rs), !.failed = FailureCount(rs),
                       !.results = rs, !.hasResults = TRUE]

NoLog == [kind |-> "none", success |-> Absent, failed |-> Absent]

(* ------------------------------------------------------------------ *)
(* Run-to-completion                                                   *)
(* ------------------------------------------------------------------ *)
\* sendBulkEmails is inside a synchronous section (between two awaits)
SchedRunning == spc \in {"create", "split", "loop", "issue", "delayCheck"}

\* sendNotification is inside a synchronous section
HandlerRunning == hpc \in {"validate", "resolve", "checkEmpty", "dispatch", "ack"}

\* the earlier run is inside a synchronous section
OtherRunning == other.spc \in {"loop", "issue", "delayCheck"}

\* the event loop is free to run a completion, a continuation or a timer
LoopIdle == ~SchedRunning /\ ~HandlerRunning /\ ~OtherRunning

(* ------------------------------------------------------------------ *)
(* Initial states                                                      *)
(* ------------------------------------------------------------------ *)
\* the ids a request may select: none, or the first b users
IdChoices == {1..b : b \in 0..MaxUsers}

InitSched ==
    /\ batches = << >>
    /\ batchIndex = 0
    /\ gi = 0
    /\ calls = << >>
    /\ settled = << >>
    /\ results = << >>
    /\ delays = 0
    /\ sent = << >>

\* no earlier run is under way
NoOther ==
    [spc |-> "absent", list |-> << >>, batches |-> << >>, batchIndex |-> 0, gi |-> 0,
     calls |-> << >>, settled |-> << >>, results |-> << >>, delays |-> 0, sent |-> << >>]

\* isActive and isEmailVerified of a user.  isEmailVerified is read only of the users the
\* isActive query returned, so an inactive user stands here with isEmailVerified set:
\* the one the handler's filter alone would let through
UserStates ==
    {[active |-> TRUE, verified |-> TRUE], [active |-> TRUE, verified |-> FALSE],
     [active |-> FALSE, verified |-> TRUE]}

\* what the handler does not read on the request's path stands at one value: the User
\* collection when the request is rejected before the query; userIds, beyond being
\* given or not, when sendToAll is set; the users the $in query leaves out, who stand
\* active and verified (the ones that would be sent to had they been requested)
ReadOnPath ==
    /\ (~req.fieldsOk \/ ~req.postExists) =>
          userDB = [u \in Users |-> [active |-> TRUE, verified |-> TRUE]]
    /\ req.sendToAll => req.userIds \subseteq {1}
    /\ (~req.sendToAll /\ req.userIds # {}) =>
          \A u \in Users \ req.userIds : userDB[u] = [active |-> TRUE, verified |-> TRUE]

\* a request arrives at POST /send
InitRequest ==
    /\ tuning = SmallTuning
    /\ other = NoOther
    /\ userDB \in [Users -> UserStates]
    /\ req \in [fieldsOk : BOOLEAN, postExists : BOOLEAN,
                sendToAll : BOOLEAN, userIds : IdChoices]
    /\ ReadOnPath
    /\ smtpOk \in BOOLEAN
    /\ hpc = "validate"
    /\ users = << >>
    /\ totalUsers = 0
    /\ unverifiedCount = 0
    /\ emailList = << >>
    /\ response = NoResponse
    /\ bgLog = NoLog
    /\ spc = "idle"
    /\ InitSched

(* ------------------------------------------------------------------ *)
(* sendNotification                                                    *)
(* ------------------------------------------------------------------ *)
\* the required-fields check without its return: the handler goes on
ValidateNoReturn ==
    /\ hpc = "validate"
    /\ hpc' = "findPost"
    /\ UNCHANGED <<envVars, users, totalUsers, unverifiedCount, emailList,
                   response, bgLog, spc, schedVars>>

\* if (!postId || !subject || !content) return next(AppError 400)
Validate ==
    /\ hpc = "validate"
    /\ IF ~req.fieldsOk
       THEN /\ response' = ErrorResponse(400, "required", Absent)
            /\ hpc' = "finished"
       ELSE /\ hpc' = "findPost"
            /\ UNCHANGED response
    /\ UNCHANGED <<envVars, users, totalUsers, unverifiedCount, emailList,
                   bgLog, spc, schedVars>>

\* the post check without its return: next(AppError 404) and the handler goes on
FindPostNoReturn ==
    /\ hpc = "findPost"
    /\ response' = IF ~req.postExists THEN ErrorResponse(404, "postNotFound", Absent)
                   ELSE response
    /\ hpc' = "resolve"
    /\ UNCHANGED <<envVars, users, totalUsers, unverifiedCount, emailList,
                   bgLog, spc, schedVars>>

\* const post = await Post.findById(postId); if (!post) return next(AppError 404)
FindPost ==
    /\ hpc = "findPost"
    /\ ~OtherRunning
    /\ IF ~req.postExists
       THEN /\ response' = ErrorResponse(404, "postNotFound", Absent)
            /\ hpc' = "finished"
       ELSE /\ hpc' = "resolve"
            /\ UNCHANGED response
    /\ UNCHANGED <<envVars, users, totalUsers, unverifiedCount, emailList,
                   bgLog, spc, schedVars>>

\* the User collection in query order
AllUsers == [i \in 1..MaxUsers |-> i]

\* User.find({ isActive: true })
ActiveUsers == SelectSeq(AllUsers, LAMBDA u : userDB[u].active)

\* User.find({ _id: { $in: userIds }, isActive: true })
SelectedUsers(ids) == SelectSeq(AllUsers, LAMBDA u : u \in ids /\ userDB[u].active)

\* the list taken as it is: users = allActiveUsers, without the isEmailVerified filter
VerifiedOfUnfiltered(list) == list

\* list.filter((user) => user.isEmailVerified)
VerifiedOf(list) == SelectSeq(list, LAMBDA u : userDB[u].verified)

\* the recipient resolution: sendToAll, else a non-empty userIds, else AppError 400
Resolve ==
    /\ hpc = "resolve"
    /\ IF req.sendToAll
       THEN /\ totalUsers' = Len(ActiveUsers)
            /\ users' = VerifiedOf(ActiveUsers)
            /\ unverifiedCount' = Len(ActiveUsers) - Len(VerifiedOf(ActiveUsers))
            /\ hpc' = "checkEmpty"
            /\ UNCHANGED response
       ELSE IF req.userIds # {}
       THEN /\ totalUsers' = Len(SelectedUsers(req.userIds))
            /\ users' = VerifiedOf(SelectedUsers(req.userIds))
            /\ unverifiedCount' = Len(SelectedUsers(req.userIds))
                                   - Len(VerifiedOf(SelectedUsers(req.userIds)))
            /\ hpc' = "checkEmpty"
            /\ UNCHANGED response
       ELSE /\ response' = ErrorResponse(400, "noSelection", Absent)
            /\ hpc' = "finished"
            /\ UNCHANGED <<users, totalUsers, unverifiedCount>>
    /\ UNCHANGED <<envVars, emailList, bgLog, spc, schedVars>>

\* the count the "No users with verified emails found" message carries:
\* `${unverifiedCount > 0 ? `${unverifiedCount} user(s) have unverified emails.` : ""}`
NoVerifiedText(n) == IF n > 0 THEN n ELSE Absent

\* a handler without the users.length === 0 check
CheckEmptyMissing ==
    /\ hpc = "checkEmpty"
    /\ emailList' = [i \in 1..Len(users) |-> EmailOf(users[i])]
    /\ hpc' = "dispatch"
    /\ UNCHANGED <<envVars, users, totalUsers, unverifiedCount, response, bgLog,
                   spc, schedVars>>

\* if (users.length === 0) return next(AppError 404); else build emailList
CheckEmpty ==
    /\ hpc = "checkEmpty"
    /\ IF Len(users) = 0
       THEN /\ response' = ErrorResponse(404, "noVerified", NoVerifiedText(unverifiedCount))
            /\ hpc' = "finished"
            /\ UNCHANGED emailList
       ELSE /\ emailList' = [i \in 1..Len(users) |-> EmailOf(users[i])]
            /\ hpc' = "dispatch"
            /\ UNCHANGED response
    /\ UNCHANGED <<envVars, users, totalUsers, unverifiedCount, bgLog, spc, schedVars>>

\* the threshold test with > for >=
IsBackgroundStrict(list) == Len(list) > LARGE_BATCH_THRESHOLD

\* emailList.length >= LARGE_BATCH_THRESHOLD
IsBackground(list) == Len(list) >= LARGE_BATCH_THRESHOLD

\* a handler that awaits sendBulkEmails in the background branch too
DispatchAwaitsAlways ==
    /\ hpc = "dispatch"
    /\ spc = "idle"
    /\ spc' = "create"
    /\ hpc' = "awaitBulk"
    /\ UNCHANGED <<envVars, users, totalUsers, unverifiedCount, emailList,
                   response, bgLog, schedVars>>

\* the call sendBulkEmails(emailList): in the background branch the handler goes on
\* to the acknowledgement once the call returns its promise; otherwise it awaits it
Dispatch ==
    /\ hpc = "dispatch"
    /\ spc = "idle"
    /\ spc' = "create"
    /\ hpc' = IF IsBackground(emailList) THEN "ack" ELSE "awaitBulk"
    /\ UNCHANGED <<envVars, users, totalUsers, unverifiedCount, emailList,
                   response, bgLog, schedVars>>

\* an acknowledgement that looks at the run first: the error response when the run has
\* already failed
AcknowledgeUnlessFailed ==
    /\ hpc = "ack"
    /\ ~SchedRunning
    /\ response' = IF spc = "rejected"
                   THEN ErrorResponse(500, "sendFailed", Absent)
                   ELSE AckResponse
    /\ hpc' = "finished"
    /\ UNCHANGED <<envVars, users, totalUsers, unverifiedCount, emailList,
                   bgLog, spc, schedVars>>

\* return ApiResponse.success(res, { total, ..., processing: true, ... })
\* runs when the call to sendBulkEmails has returned (the scheduler is suspended or over)
Acknowledge ==
    /\ hpc = "ack"
    /\ ~SchedRunning
    /\ response' = AckResponse
    /\ hpc' = "finished"
    /\ UNCHANGED <<envVars, users, totalUsers, unverifiedCount, emailList,
                   bgLog, spc, schedVars>>

\* a report built from results as they stand when sendBulkEmails first suspends
ReportWithoutAwait ==
    /\ hpc = "awaitBulk"
    /\ ~SchedRunning
    /\ response' = IF spc = "rejected"
                   THEN ErrorResponse(500, "sendFailed", Absent)
                   ELSE ReportResponse(results)
    /\ hpc' = "finished"
    /\ UNCHANGED <<envVars, users, totalUsers, unverifiedCount, emailList,
                   bgLog, spc, schedVars>>

\* results = await sendBulkEmails(emailList), the catch around it, and the report
Report ==
    /\ hpc = "awaitBulk"
    /\ spc \in {"done", "rejected"}
    /\ ~OtherRunning
    /\ response' = IF spc = "rejected"
                   THEN ErrorResponse(500, "sendFailed", Absent)
                   ELSE ReportResponse(results)
    /\ hpc' = "finished"
    /\ UNCHANGED <<envVars, users, totalUsers, unverifiedCount, emailList,
                   bgLog, spc, schedVars>>

\* a background continuation that answers the caller again with the report
BackgroundLogResponds ==
    /\ hpc = "finished"
    /\ response.processing
    /\ bgLog.kind = "none"
    /\ spc \in {"done", "rejected"}
    /\ bgLog' = IF spc = "rejected"
                THEN [NoLog EXCEPT !.kind = "error"]
                ELSE [kind |-> "tally", success |-> SuccessCount(results),
                      failed |-> FailureCount(results)]
    /\ response' = ReportResponse(results)
    /\ UNCHANGED <<envVars, hpc, users, totalUsers, unverifiedCount, emailList,
                   spc, schedVars>>

\* the .then / .catch of the background call: console.log of the tally, or console.error
BackgroundLog ==
    /\ hpc = "finished"
    /\ response.processing
    /\ bgLog.kind = "none"
    /\ spc \in {"done", "rejected"}
    /\ ~OtherRunning
    /\ bgLog' = IF spc = "rejected"
                THEN [NoLog EXCEPT !.kind = "error"]
                ELSE [kind |-> "tally", success |-> SuccessCount(results),
                      failed |-> FailureCount(results)]
    /\ UNCHANGED <<envVars, hpc, users, totalUsers, unverifiedCount, emailList,
                   response, spc, schedVars>>

(* ------------------------------------------------------------------ *)
(* sendBulkEmails                                                      *)
(* ------------------------------------------------------------------ *)
\* the batch of the current iteration: batches[batchIndex]
CurrentBatch == batches[batchIndex + 1]

\* a createTransporter without its check of SMTP_USER and SMTP_PASS
CreateTransporterNoCheck ==
    /\ spc = "create"
    /\ spc' = "split"
    /\ UNCHANGED <<envVars, handlerVars, emailList, schedVars>>

\* const transporter = createTransporter(): throws when the SMTP credentials are missing,
\* which rejects the promise sendBulkEmails returned
CreateTransporter ==
    /\ spc = "create"
    /\ spc' = IF smtpOk THEN "split" ELSE "rejected"
    /\ UNCHANGED <<envVars, handlerVars, emailList, schedVars>>

\* the split loop stepping by the group size: i += CONCURRENT_PER_BATCH, slice(i, i + CONCURRENT_PER_BATCH)
SplitByConcurrency ==
    /\ spc = "split"
    /\ batches' = SplitBatches(emailList, CONCURRENT_PER_BATCH)
    /\ calls' = [k \in 1..Len(batches') |-> [j \in 1..Len(batches'[k]) |-> "none"]]
    /\ settled' = [k \in 1..Len(batches') |-> [j \in 1..Len(batches'[k]) |-> NoOutcome]]
    /\ batchIndex' = 0
    /\ spc' = "loop"
    /\ UNCHANGED <<envVars, handlerVars, emailList, gi, results, delays, sent>>

\* the split loop; one sendMail promise slot and one callback slot per batch entry
Split ==
    /\ spc = "split"
    /\ batches' = SplitBatches(emailList, BATCH_SIZE)
    /\ calls' = [k \in 1..Len(batches') |-> [j \in 1..Len(batches'[k]) |-> "none"]]
    /\ settled' = [k \in 1..Len(batches') |-> [j \in 1..Len(batches'[k]) |-> NoOutcome]]
    /\ batchIndex' = 0
    /\ spc' = "loop"
    /\ UNCHANGED <<envVars, handlerVars, emailList, gi, results, delays, sent>>

\* a batch loop that gives up when the batch before had no successful delivery
BatchLoopAbortOnFailure ==
    /\ spc = "loop"
    /\ IF /\ batchIndex < Len(batches)
          /\ (batchIndex = 0 \/ \E j \in 1..Len(calls[batchIndex]) : calls[batchIndex][j] = "ok")
       THEN /\ gi' = 0
            /\ spc' = "issue"
       ELSE /\ spc' = "done"
            /\ UNCHANGED gi
    /\ UNCHANGED <<envVars, handlerVars, emailList, batches, batchIndex, calls,
                   settled, results, delays, sent>>

\* for (let batchIndex = 0; batchIndex < batches.length; batchIndex++) ... return results
BatchLoop ==
    /\ spc = "loop"
    /\ IF batchIndex < Len(batches)
       THEN /\ gi' = 0
            /\ spc' = "issue"
       ELSE /\ spc' = "done"
            /\ UNCHANGED gi
    /\ UNCHANGED <<envVars, handlerVars, emailList, batches, batchIndex, calls,
                   settled, results, delays, sent>>

\* groups that overlap by one entry: batch.slice(i, i + CONCURRENT_PER_BATCH + 1)
GroupEntriesOverlap(batch, i) ==
    {j \in 1..Len(batch) : i < j /\ j <= i + CONCURRENT_PER_BATCH + 1}

\* the entries batch.slice(i, i + CONCURRENT_PER_BATCH) covers (1-based)
GroupEntries(batch, i) ==
    {j \in 1..Len(batch) : i < j /\ j <= i + CONCURRENT_PER_BATCH}

\* concurrentBatch, the group's addresses in order
GroupList(batch, i) ==
    [n \in 1..Cardinality(GroupEntries(batch, i)) |-> batch[i + n]]

\* one iteration of the inner loop: concurrentBatch.map(async ...) calls
\* transporter.sendMail for every entry of the group, and Promise.all of the group is
\* pushed to batchPromises without being awaited
IssueGroup ==
    /\ spc = "issue"
    /\ gi < Len(CurrentBatch)
    /\ calls' = [calls EXCEPT ![batchIndex + 1] =
                    [j \in 1..Len(CurrentBatch) |->
                        IF j \in GroupEntries(CurrentBatch, gi) THEN "inflight" ELSE @[j]]]
    /\ sent' = sent \o GroupList(CurrentBatch, gi)
    /\ gi' = gi + CONCURRENT_PER_BATCH
    /\ UNCHANGED <<envVars, handlerVars, emailList, spc, batches, batchIndex,
                   settled, results, delays>>

\* the inner loop is over and the batch is not awaited: Promise.all(batchPromises)
\* without await, the scheduler goes on to the pause
AwaitBatchNoWait ==
    /\ spc = "issue"
    /\ gi >= Len(CurrentBatch)
    /\ spc' = "delayCheck"
    /\ UNCHANGED <<envVars, handlerVars, emailList, schedVars>>

\* the inner loop is over: await Promise.all(batchPromises) suspends sendBulkEmails
AwaitBatch ==
    /\ spc = "issue"
    /\ gi >= Len(CurrentBatch)
    /\ spc' = "awaitBatch"
    /\ UNCHANGED <<envVars, handlerVars, emailList, schedVars>>

\* one transporter.sendMail promise settles (fulfilled or rejected) and the async
\* callback around it returns its outcome record
Settle ==
    /\ LoopIdle
    /\ \E k \in 1..Len(calls) : \E j \in 1..Len(calls[k]) : \E res \in {"ok", "err"} :
          /\ calls[k][j] = "inflight"
          /\ calls' = [calls EXCEPT ![k][j] = res]
          /\ settled' = [settled EXCEPT ![k][j] = Outcome(batches[k][j], res)]
    /\ UNCHANGED <<envVars, handlerVars, emailList, spc, batches, batchIndex, gi,
                   results, delays, sent>>

\* the batch wait over as soon as one promise has settled: Promise.race for Promise.all
BatchSettledAny == \E j \in 1..Len(CurrentBatch) : calls[batchIndex + 1][j] \in {"ok", "err"}

\* every promise of the current batch has settled
BatchSettled == \A j \in 1..Len(CurrentBatch) : calls[batchIndex + 1][j] \in {"ok", "err"}

\* batchResults regrouped by result: the successful outcomes, then the failed ones
BatchResultsSuccessesFirst ==
    <<SelectSeq(settled[batchIndex + 1], LAMBDA r : r.success),
      SelectSeq(settled[batchIndex + 1], LAMBDA r : ~r.success)>>

\* batchResults: one array per group, in group order
BatchResults == SplitBatches(settled[batchIndex + 1], CONCURRENT_PER_BATCH)

\* the batch collected without the wait: results.push(...) of what the callbacks have
\* returned so far when the loop is next free
ResumeBatchWithoutWait ==
    /\ spc = "awaitBatch"
    /\ LoopIdle
    /\ results' = results \o Flat(BatchResults)
    /\ spc' = "delayCheck"
    /\ UNCHANGED <<envVars, handlerVars, emailList, batches, batchIndex, gi, calls,
                   settled, delays, sent>>

\* Promise.all(batchPromises) is fulfilled: results.push(...batchResults.flat())
ResumeBatch ==
    /\ spc = "awaitBatch"
    /\ LoopIdle
    /\ BatchSettled
    /\ results' = results \o Flat(BatchResults)
    /\ spc' = "delayCheck"
    /\ UNCHANGED <<envVars, handlerVars, emailList, batches, batchIndex, gi, calls,
                   settled, delays, sent>>

\* a pause taken only while a caller is waiting: none once the handler has answered
DelayCheckOnlyWhileAwaited ==
    /\ spc = "delayCheck"
    /\ IF batchIndex < Len(batches) - 1 /\ hpc # "finished"
       THEN /\ spc' = "delaying"
            /\ delays' = delays + 1
            /\ UNCHANGED batchIndex
       ELSE /\ spc' = "loop"
            /\ batchIndex' = batchIndex + 1
            /\ UNCHANGED delays
    /\ UNCHANGED <<envVars, handlerVars, emailList, batches, gi, calls, settled, results,
                   sent>>

\* the pause taken after every batch, the last included
DelayCheckAlways ==
    /\ spc = "delayCheck"
    /\ spc' = "delaying"
    /\ delays' = delays + 1
    /\ UNCHANGED <<envVars, handlerVars, emailList, batches, batchIndex, gi, calls,
                   settled, results, sent>>

\* if (batchIndex < batches.length - 1) await new Promise(r => setTimeout(r, DELAY))
DelayCheck ==
    /\ spc = "delayCheck"
    /\ IF batchIndex < Len(batches) - 1
       THEN /\ spc' = "delaying"
            /\ delays' = delays + 1
            /\ UNCHANGED batchIndex
       ELSE /\ spc' = "loop"
            /\ batchIndex' = batchIndex + 1
            /\ UNCHANGED delays
    /\ UNCHANGED <<envVars, handlerVars, emailList, batches, gi, calls, settled, results,
                   sent>>

\* a pause whose promise is never resolved: setTimeout(() => {}, DELAY)
TimerNeverFires ==
    /\ spc = "delaying"
    /\ FALSE
    /\ UNCHANGED vars

\* a pause that is dropped with the request: the timer fires only while the handler runs
TimerFireWhileRequestOpen ==
    /\ spc = "delaying"
    /\ LoopIdle
    /\ hpc # "finished"
    /\ spc' = "loop"
    /\ batchIndex' = batchIndex + 1
    /\ UNCHANGED <<envVars, handlerVars, emailList, batches, gi, calls, settled,
                   results, delays, sent>>

\* the setTimeout fires and the loop goes to its next iteration
TimerFire ==
    /\ spc = "delaying"
    /\ LoopIdle
    /\ spc' = "loop"
    /\ batchIndex' = batchIndex + 1
    /\ UNCHANGED <<envVars, handlerVars, emailList, batches, gi, calls, settled,
                   results, delays, sent>>

(* ------------------------------------------------------------------ *)
(* Specifications                                                      *)
(* ------------------------------------------------------------------ *)
Next ==
    \/ Validate
    \/ FindPost
    \/ Resolve
    \/ CheckEmpty
    \/ Dispatch
    \/ Acknowledge
    \/ Report
    \/ BackgroundLog
    \/ CreateTransporter
    \/ Split
    \/ BatchLoop
    \/ IssueGroup
    \/ AwaitBatch
    \/ Settle
    \/ ResumeBatch
    \/ DelayCheck
    \/ TimerFire

\* a list is canonical when its addresses are numbered in order of first occurrence
\* (addresses are opaque: every list is a renaming of a canonical one)
Canonical(list) ==
    \A i \in 1..Len(list) :
        \/ list[i] = 1
        \/ \E h \in 1..(i - 1) : list[h] = list[i] - 1

BulkLists == UNION {{l \in [1..n -> 1..n] : Canonical(l)} : n \in 0..MaxLen}

\* sendBulkEmails called directly with any list, duplicates and the empty list included
InitBulk ==
    /\ tuning = SmallTuning
    /\ other = NoOther
    /\ userDB = [u \in Users |-> [active |-> FALSE, verified |-> TRUE]]
    /\ req = [fieldsOk |-> FALSE, postExists |-> FALSE, sendToAll |-> FALSE, userIds |-> {}]
    /\ smtpOk \in BOOLEAN
    /\ hpc = "direct"
    /\ users = << >>
    /\ totalUsers = 0
    /\ unverifiedCount = 0
    /\ emailList \in BulkLists
    /\ response = NoResponse
    /\ bgLog = NoLog
    /\ spc = "create"
    /\ InitSched

\* either entry point: a request to sendNotification, or a direct call of sendBulkEmails
Init == InitRequest \/ InitBulk

\* one job, from its entry to the end of its dispatch
Spec == Init /\ [][Next]_vars

\* the steps of sendBulkEmails and of its transport calls and timer
SchedNext ==
    \/ CreateTransporter
    \/ Split
    \/ BatchLoop
    \/ IssueGroup
    \/ AwaitBatch
    \/ Settle
    \/ ResumeBatch
    \/ DelayCheck
    \/ TimerFire

\* the event loop keeps running: a synchronous section that can run does, every issued
\* transport call settles and every timer fires.  No step of a job re-enables an
\* earlier one, so weak fairness of the whole step is enough.
\* It starts from the jobs that get started: a direct call, or a send-to-all request
\* that passes validation, over every state of the User collection.
InitStarted ==
    \/ InitBulk
    \/ /\ InitRequest
       /\ req.fieldsOk /\ req.postExists
       /\ req.sendToAll /\ req.userIds = {}

FairSpec == InitStarted /\ [][Next]_vars /\ WF_vars(Next)

(* ------------------------------------------------------------------ *)
(* The worked example: the code's constants, 120 verified recipients,  *)
(* and a transport double that rejects three fixed addresses and        *)
(* completes its calls in the order they were made.                     *)
(* ------------------------------------------------------------------ *)
\* the addresses the transport double rejects: the last entry of a group, the first
\* entry of the second batch, the last entry of the list
ExampleFailing == {10, 51, 120}

\* sendNotification has resolved 120 verified users and built emailList (part_004:500)
InitExample ==
    /\ tuning = CodeTuning
    /\ other = NoOther
    /\ userDB = [u \in Users |-> [active |-> TRUE, verified |-> TRUE]]
    /\ req = [fieldsOk |-> TRUE, postExists |-> TRUE, sendToAll |-> TRUE, userIds |-> {}]
    /\ smtpOk = TRUE
    /\ hpc = "dispatch"
    /\ users = [i \in 1..120 |-> i]
    /\ totalUsers = 120
    /\ unverifiedCount = 0
    /\ emailList = [i \in 1..120 |-> EmailOf(i)]
    /\ response = NoResponse
    /\ bgLog = NoLog
    /\ spc = "idle"
    /\ InitSched

\* Settle with the transport double: the oldest call in flight settles, rejected exactly
\* for the fixed addresses; the async callback returns its outcome record
SettleInOrder ==
    /\ LoopIdle
    /\ \E k \in 1..Len(calls) : \E j \in 1..Len(calls[k]) :
          /\ calls[k][j] = "inflight"
          /\ \A i \in 1..(j - 1) : calls[k][i] # "inflight"
          /\ LET res == IF batches[k][j] \in ExampleFailing THEN "err" ELSE "ok"
             IN  /\ calls' = [calls EXCEPT ![k][j] = res]
                 /\ settled' = [settled EXCEPT ![k][j] = Outcome(batches[k][j], res)]
    /\ UNCHANGED <<envVars, handlerVars, emailList, spc, batches, batchIndex, gi,
                   results, delays, sent>>

ExampleNext ==
    \/ Dispatch
    \/ Report
    \/ CreateTransporter
    \/ Split
    \/ BatchLoop
    \/ IssueGroup
    \/ AwaitBatch
    \/ SettleInOrder
    \/ ResumeBatch
    \/ DelayCheck
    \/ TimerFire

ExampleSpec == InitExample /\ [][ExampleNext]_vars

(* ------------------------------------------------------------------ *)
(* Two jobs.  An earlier request's detached sendBulkEmails run is       *)
(* still under way when a request arrives.  Each call of sendBulkEmails *)
(* has its own results, batches, batchIndex, i and transporter (they    *)
(* are locals of the call), so the earlier run is a record of its own;  *)
(* its steps are those of sendBulkEmails above, taken on that record.   *)
(* ------------------------------------------------------------------ *)
mainVars == <<tuning, userDB, req, smtpOk, hpc, users, totalUsers, unverifiedCount,
              emailList, response, bgLog, spc, batches, batchIndex, gi, calls,
              settled, results, delays, sent>>

\* batches[batchIndex] of the earlier run
OtherBatch == other.batches[other.batchIndex + 1]

\* the value of i when the inner loop over a batch of n entries ends
LoopEnd(n) == ((n + CONCURRENT_PER_BATCH - 1) \div CONCURRENT_PER_BATCH) * CONCURRENT_PER_BATCH

\* sendBulkEmails(list) as it stands when its caller has returned: the transporter
\* created, the list split, every call of the first batch made, suspended on
\* await Promise.all(batchPromises)
StartedRun(list) ==
    LET bs == SplitBatches(list, BATCH_SIZE)
    IN  [spc |-> "awaitBatch", list |-> list, batches |-> bs, batchIndex |-> 0,
         gi |-> LoopEnd(Len(bs[1])),
         calls |-> [k \in 1..Len(bs) |->
                       [j \in 1..Len(bs[k]) |-> IF k = 1 THEN "inflight" ELSE "none"]],
         settled |-> [k \in 1..Len(bs) |-> [j \in 1..Len(bs[k]) |-> NoOutcome]],
         results |-> << >>, delays |-> 0, sent |-> bs[1]]

\* BatchLoop of the earlier run
OtherBatchLoop ==
    /\ other.spc = "loop"
    /\ other' = IF other.batchIndex < Len(other.batches)
                THEN [other EXCEPT !.gi = 0, !.spc = "issue"]
                ELSE [other EXCEPT !.spc = "done"]
    /\ UNCHANGED mainVars

\* IssueGroup of the earlier run
OtherIssueGroup ==
    /\ other.spc = "issue"
    /\ other.gi < Len(OtherBatch)
    /\ other' = [other EXCEPT
                    !.calls[other.batchIndex + 1] =
                        [j \in 1..Len(OtherBatch) |->
                            IF j \in GroupEntries(OtherBatch, other.gi) THEN "inflight" ELSE @[j]],
                    !.sent = @ \o GroupList(OtherBatch, other.gi),
                    !.gi = @ + CONCURRENT_PER_BATCH]
    /\ UNCHANGED mainVars

\* AwaitBatch of the earlier run
OtherAwaitBatch ==
    /\ other.spc = "issue"
    /\ other.gi >= Len(OtherBatch)
    /\ other' = [other EXCEPT !.spc = "awaitBatch"]
    /\ UNCHANGED mainVars

\* Settle of the earlier run: one of its transporter.sendMail promises settles
OtherSettle ==
    /\ LoopIdle
    /\ \E k \in 1..Len(other.calls) : \E j \in 1..Len(other.calls[k]) : \E res \in {"ok", "err"} :
          /\ other.calls[k][j] = "inflight"
          /\ other' = [other EXCEPT !.calls[k][j] = res,
                                    !.settled[k][j] = Outcome(other.batches[k][j], res)]
    /\ UNCHANGED mainVars

\* every promise of the earlier run's current batch has settled
OtherBatchSettled ==
    \A j \in 1..Len(OtherBatch) : other.calls[other.batchIndex + 1][j] \in {"ok", "err"}

\* the two runs sharing one results array (results declared outside sendBulkEmails):
\* the earlier run pushes its batch into the array of the later one
OtherResumeBatchSharedResults ==
    /\ other.spc = "awaitBatch"
    /\ LoopIdle
    /\ OtherBatchSettled
    /\ results' = results \o
            Flat(SplitBatches(other.settled[other.batchIndex + 1], CONCURRENT_PER_BATCH))
    /\ other' = [other EXCEPT !.spc = "delayCheck"]
    /\ UNCHANGED <<tuning, userDB, req, smtpOk, handlerVars, emailList, spc, batches,
                   batchIndex, gi, calls, settled, delays, sent>>

\* ResumeBatch of the earlier run
OtherResumeBatch ==
    /\ other.spc = "awaitBatch"
    /\ LoopIdle
    /\ OtherBatchSettled
    /\ other' = [other EXCEPT
                    !.results = @ \o
                        Flat(SplitBatches(other.settled[other.batchIndex + 1], CONCURRENT_PER_BATCH)),
                    !.spc = "delayCheck"]
    /\ UNCHANGED mainVars

\* DelayCheck of the earlier run
OtherDelayCheck ==
    /\ other.spc = "delayCheck"
    /\ other' = IF other.batchIndex < Len(other.batches) - 1
                THEN [other EXCEPT !.spc = "delaying", !.delays = @ + 1]
                ELSE [other EXCEPT !.spc = "loop", !.batchIndex = @ + 1]
    /\ UNCHANGED mainVars

\* TimerFire of the earlier run
OtherTimerFire ==
    /\ other.spc = "delaying"
    /\ LoopIdle
    /\ other' = [other EXCEPT !.spc = "loop", !.batchIndex = @ + 1]
    /\ UNCHANGED mainVars

OtherNext ==
    \/ OtherBatchLoop
    \/ OtherIssueGroup
    \/ OtherAwaitBatch
    \/ OtherSettle
    \/ OtherResumeBatch
    \/ OtherDelayCheck
    \/ OtherTimerFire

\* the recipient lists of the earlier run: Background-sized, over users of the same
\* collection, in another order than the later request's
OtherLists == {<<6, 5, 4, 3, 2>>, <<5, 5, 4, 3, 2, 1>>}

\* the verified users when the later request arrives: the first v (an Immediate job of
\* one batch, of two batches, a Background job)
PairVerified == {2, 4, MaxUsers}

\* a send-to-all request arrives while the earlier run is suspended on its first batch
InitPair ==
    /\ tuning = SmallTuning
    /\ \E l \in OtherLists : other = StartedRun(l)
    /\ \E v \in PairVerified :
          userDB = [u \in Users |-> [active |-> TRUE, verified |-> (u <= v)]]
    /\ req = [fieldsOk |-> TRUE, postExists |-> TRUE, sendToAll |-> TRUE, userIds |-> {}]
    /\ smtpOk = TRUE
    /\ hpc = "validate"
    /\ users = << >>
    /\ totalUsers = 0
    /\ unverifiedCount = 0
    /\ emailList = << >>
    /\ response = NoResponse
    /\ bgLog = NoLog
    /\ spc = "idle"
    /\ InitSched

PairNext == SchedNext \/ OtherNext \/ Validate \/ FindPost \/ Resolve \/ CheckEmpty
            \/ Dispatch \/ Acknowledge \/ Report \/ BackgroundLog

PairSpec == InitPair /\ [][PairNext]_vars

(* ------------------------------------------------------------------ *)
(* Observations                                                        *)
(* ------------------------------------------------------------------ *)
Entries == {<<k, j>> \in (1..Len(calls)) \X (1..BATCH_SIZE + 1) : j <= Len(calls[k])}

\* transporter.sendMail calls issued and not yet settled
InFlight == Cardinality({e \in Entries : calls[e[1]][e[2]] = "inflight"})

IsSettled(k, j) == calls[k][j] \in {"ok", "err"}
AnyIssued == \E e \in Entries : calls[e[1]][e[2]] # "none"
AnySettled == \E e \in Entries : IsSettled(e[1], e[2])

\* the concurrency group of entry j of a batch (0-based)
GroupOf(j) == (j - 1) \div CONCURRENT_PER_BATCH

\* how often address a occurs in a list of addresses
Occurrences(list, a) == Cardinality({i \in 1..Len(list) : list[i] = a})
EmailsOf(rs) == [i \in 1..Len(rs) |-> rs[i].email]
Addresses == 1..(MaxUsers + MaxLen)

\* batches whose outcomes have been pushed to results
BatchesCollected ==
    IF spc \in {"delayCheck", "delaying"} THEN batchIndex + 1 ELSE batchIndex

RECURSIVE SumLen(_, _)
SumLen(ss, n) == IF n = 0 THEN 0 ELSE Len(ss[n]) + SumLen(ss, n - 1)

\* recipients of the batches collected so far
AttemptedSoFar == SumLen(batches, BatchesCollected)

(* ------------------------------------------------------------------ *)
(* Claims                                                              *)
(* ------------------------------------------------------------------ *)

\* C1: at every instant the number of transport calls issued and not yet settled is at
\* most CONCURRENT_PER_BATCH.  (The claim as stated; the code violates it: the inner
\* loop issues every group of the batch before anything is awaited.)
C1_ConcurrencyCeiling == InFlight <= CONCURRENT_PER_BATCH

\* C2: within a batch no call of a later group is issued until every call of every
\* earlier group has settled.  (The claim as stated; the code violates it.)
C2_GroupBarrier ==
    \A k \in 1..Len(calls) : \A j1 \in 1..Len(calls[k]) : \A j2 \in 1..Len(calls[k]) :
        (GroupOf(j1) < GroupOf(j2) /\ calls[k][j2] # "none") => IsSettled(k, j1)

\* C3: once the run is complete the outcome list has exactly N entries and every
\* address occurs in it exactly as often as in the recipient list (exactly once when
\* the list has no duplicate), whatever subset of the transport calls failed; the
\* report of the immediate response is that list.
C3_Coverage ==
    /\ spc = "done" =>
          /\ Len(results) = Len(emailList)
          /\ \A a \in Addresses :
                Occurrences(EmailsOf(results), a) = Occurrences(emailList, a)
    /\ response.hasResults =>
          /\ Len(response.results) = Len(emailList)
          /\ \A a \in Addresses :
                Occurrences(EmailsOf(response.results), a) = Occurrences(emailList, a)

\* C3 witness: a finished run of several batches over distinct addresses in which some
\* calls failed and some succeeded
C3_Witness ==
    /\ spc = "done"
    /\ Len(batches) >= 2
    /\ \A a \in Addresses : Occurrences(emailList, a) <= 1
    /\ SuccessCount(results) > 0
    /\ FailureCount(results) > 0

\* C4: in every report (accumulated results after any number of batches, the immediate
\* response, the background tally) successes + failures = recipients attempted so far
\* (the recipients of the batches collected); in the immediate response it is total.
C4_CountConsistency ==
    /\ spc \notin {"idle", "create", "split", "rejected"} =>
          SuccessCount(results) + FailureCount(results) = AttemptedSoFar
    /\ response.hasResults => response.success + response.failed = response.total
    /\ bgLog.kind = "tally" => bgLog.success + bgLog.failed = Len(emailList)

\* C4 witness: an immediate report of a job of several batches with successes and failures
C4_Witness ==
    /\ response.hasResults
    /\ Len(batches) >= 2
    /\ response.success > 0
    /\ response.failed > 0

\* C5: as stated: in Background mode the acknowledgement is returned before the first
\* transport call of the job is issued.  (The code violates it: sendBulkEmails is called,
\* and issues the first batch, before ApiResponse.success.)
C5_AckBeforeFirstCall ==
    (hpc # "direct" /\ IsBackground(emailList) /\ AnyIssued) => response.kind = "success"

\* C5 amended: in Background mode sendBulkEmails is started first and the acknowledgement
\* follows in the same synchronous section: when it is returned every call of the first
\* batch has been issued (if the transporter could be created), and it is returned
\* before any transport call has settled, so before any outcome or batch result exists.
C5_AckBeforeFirstSettle ==
    (hpc # "direct" /\ IsBackground(emailList)) =>
        /\ (AnySettled \/ results # << >> \/ spc = "done") => response.processing
        /\ response.processing => spc # "idle"
        /\ (response.processing /\ smtpOk) =>
              /\ Len(calls) >= 1
              /\ \A j \in 1..Len(calls[1]) : calls[1][j] # "none"

\* C5 witness: the acknowledgement has been returned, the whole first batch is in flight
\* and nothing has settled
C5_Witness ==
    /\ response.processing
    /\ spc = "awaitBatch"
    /\ batchIndex = 0
    /\ InFlight = BATCH_SIZE
    /\ ~AnySettled

\* the scheduler has attempted every batch and returned
AllBatchesCompleted ==
    spc = "done" /\ batchIndex = Len(batches) /\ Len(results) = Len(emailList)

C6_WitnessBelow ==
    /\ Len(emailList) = LARGE_BATCH_THRESHOLD - 1
    /\ response.hasResults
    /\ AllBatchesCompleted

\* the request passed validation and recipient resolution found no verified user
ZeroEligible ==
    /\ hpc = "finished"
    /\ req.fieldsOk /\ req.postExists
    /\ (req.sendToAll \/ req.userIds # {})
    /\ Len(users) = 0

\* C7: as stated: zero eligible recipients gives a successful "nothing to send" result
\* carrying the exclusion count.  (The code answers with an AppError 404.)
C7_ZeroEligibleIsSuccess ==
    ZeroEligible => (response.kind = "success" /\ response.unverifiedSkipped = unverifiedCount)

\* C7 amended: zero eligible recipients short-circuits, without invoking sendBulkEmails,
\* to an error response: AppError 404 "No users with verified emails found", whose text
\* carries the exclusion count only when it is positive; it differs from the 500 of a
\* failed job by its status.
C7_ZeroEligibleIs404 ==
    ZeroEligible =>
        /\ response.kind = "error"
        /\ response.status = 404
        /\ response.msg = "noVerified"
        /\ response.unverifiedSkipped = (IF unverifiedCount > 0 THEN unverifiedCount ELSE Absent)
        /\ spc = "idle"
        /\ ~AnyIssued

\* C7 witness: every selected user is unverified, and the 404 carries their number
C7_Witness ==
    /\ ZeroEligible
    /\ unverifiedCount > 0
    /\ response.status = 404
    /\ response.unverifiedSkipped = unverifiedCount

\* C8: with an empty recipient list no transport call is issued, no batch is formed, no
\* pause is taken and the outcome list is empty: sendBulkEmails([]) never suspends (it
\* goes from its call to its return, or to the transporter's throw, in one synchronous
\* section), and sendNotification never calls sendBulkEmails with zero eligible users.
C8_ZeroRecipients ==
    /\ (hpc = "direct" /\ emailList = << >>) =>
          /\ spc \in {"create", "split", "loop", "done", "rejected"}
          /\ batches = << >>
          /\ calls = << >>
          /\ delays = 0
          /\ results = << >>
          /\ spc = "rejected" => ~smtpOk
    /\ (hpc # "direct" /\ emailList = << >>) =>
          /\ spc = "idle"
          /\ calls = << >>
          /\ delays = 0
          /\ ~response.hasResults

\* C8 witness: sendBulkEmails([]) has returned
C8_Witness == hpc = "direct" /\ emailList = << >> /\ spc = "done" /\ results = << >>

\* the position in results of entry j of batch k, once batch k has been collected
PositionOf(k, j) == SumLen(batches, k - 1) + j

\* C9: a failing transport call yields a failed outcome for its own address and nothing
\* else: every entry of the batch is attempted whatever fails, a settled call's outcome
\* is success exactly when the call succeeded, the batch's outcomes are all collected,
\* and sendBulkEmails never rejects because of a transport failure.
C9_FaultIsolation ==
    /\ spc = "rejected" => (~smtpOk /\ ~AnyIssued)
    /\ \A k \in 1..Len(calls) : \A j \in 1..Len(calls[k]) :
          /\ calls[k][j] = "err" => settled[k][j] = [success |-> FALSE, email |-> batches[k][j]]
          /\ calls[k][j] = "ok" => settled[k][j] = [success |-> TRUE, email |-> batches[k][j]]
          /\ (spc = "awaitBatch" /\ k = batchIndex + 1) => calls[k][j] # "none"
          /\ k <= BatchesCollected =>
                /\ IsSettled(k, j)
                /\ PositionOf(k, j) <= Len(results)
                /\ results[PositionOf(k, j)] = settled[k][j]

\* C9 witness: a completed run in which one batch holds a failed and a succeeded call
C9_Witness ==
    /\ spc = "done"
    /\ \E k \in 1..Len(calls) : \E j1 \in 1..Len(calls[k]) : \E j2 \in 1..Len(calls[k]) :
          /\ calls[k][j1] = "err" /\ ~results[PositionOf(k, j1)].success
          /\ calls[k][j2] = "ok" /\ results[PositionOf(k, j2)].success

CeilDiv(n, d) == (n + d - 1) \div d

\* C10: the list is split into exactly ceil(N / BATCH_SIZE) batches, every batch but the
\* last of size BATCH_SIZE, the last of size N mod BATCH_SIZE (BATCH_SIZE when it
\* divides N), and the batches in order are the original list.
C10_Batching ==
    spc \notin {"idle", "create", "split", "rejected"} =>
        LET N == Len(emailList)
            B == BATCH_SIZE
        IN  /\ Len(batches) = CeilDiv(N, B)
            /\ \A k \in 1..Len(batches) :
                  /\ k < Len(batches) => Len(batches[k]) = B
                  /\ k = Len(batches) =>
                        Len(batches[k]) = (IF N % B = 0 THEN B ELSE N % B)
                  /\ \A j \in 1..Len(batches[k]) :
                        /\ (k - 1) * B + j <= N
                        /\ batches[k][j] = emailList[(k - 1) * B + j]

\* C10 witness: a list split into several batches with a shorter last one
C10_Witness ==
    /\ spc = "loop"
    /\ Len(batches) >= 2
    /\ Len(emailList) % BATCH_SIZE # 0
    /\ Len(batches[Len(batches)]) < BATCH_SIZE

\* a list of a whole number of batches
C10_WitnessEven ==
    /\ spc = "loop"
    /\ Len(emailList) > 0
    /\ Len(emailList) % BATCH_SIZE = 0

\* C11: batches are strictly sequential and in list order: a call of a later batch is
\* issued only when every call of every earlier batch has settled, so calls of two
\* batches are never in flight together, and the batch being issued is batchIndex.
C11_BatchesSequential ==
    /\ \A k1 \in 1..Len(calls) : \A k2 \in 1..Len(calls) :
          (k1 < k2 /\ \E j \in 1..Len(calls[k2]) : calls[k2][j] # "none") =>
              \A j \in 1..Len(calls[k1]) : IsSettled(k1, j)
    /\ \A k \in 1..Len(calls) : \A j \in 1..Len(calls[k]) :
          calls[k][j] = "inflight" => k = batchIndex + 1
    /\ sent # << >> => \A n \in 1..Len(sent) : sent[n] = emailList[n]

\* C11 witness: the second batch is in flight after a first batch that has fully settled
C11_Witness ==
    /\ Len(calls) >= 2
    /\ batchIndex = 1
    /\ \E j \in 1..Len(calls[2]) : calls[2][j] = "inflight"
    /\ \A j \in 1..Len(calls[1]) : IsSettled(1, j)

\* C12: the scheduler pauses once after each batch but the last, before any call of the
\* next batch, and not after the last: a finished job of b >= 1 batches has taken b - 1
\* pauses, a single-batch job none; while batch k (k >= 2) is being issued or awaited
\* exactly k - 1 pauses have been taken.
C12_InterBatchPacing ==
    /\ spc = "done" => delays = (IF Len(batches) >= 1 THEN Len(batches) - 1 ELSE 0)
    /\ spc \in {"issue", "awaitBatch"} => delays = batchIndex
    /\ spc = "delaying" =>
          /\ delays = batchIndex + 1
          /\ batchIndex + 1 < Len(batches)
          /\ InFlight = 0
          /\ \A j \in 1..Len(calls[batchIndex + 2]) : calls[batchIndex + 2][j] = "none"
    /\ delays <= (IF Len(batches) >= 1 THEN Len(batches) - 1 ELSE 0)

\* C12 witness: a finished job of two batches that took exactly one pause
C12_Witness == spc = "done" /\ Len(batches) = 2 /\ delays = 1

\* a finished single-batch job took no pause
C12_WitnessSingle == spc = "done" /\ Len(batches) = 1 /\ delays = 0

\* C13: there is no job-level abort: the scheduler returns only when every batch has
\* been attempted (every entry of every batch was issued and has an outcome in
\* results), whatever failed before; after a batch whose deliveries all failed the next
\* batch is still processed.
C13_NoJobAbort ==
    /\ spc = "done" =>
          /\ batchIndex = Len(batches)
          /\ \A k \in 1..Len(calls) : \A j \in 1..Len(calls[k]) : IsSettled(k, j)
          /\ Len(results) = SumLen(batches, Len(batches))
    /\ (spc = "loop" /\ batchIndex < Len(batches)) => ENABLED BatchLoop
    /\ (smtpOk /\ spc # "idle") => spc # "rejected"

\* C13 witness: a finished job in which every delivery of the first batch failed and the
\* second batch was attempted all the same
C13_Witness ==
    /\ spc = "done"
    /\ Len(calls) >= 2
    /\ \A j \in 1..Len(calls[1]) : calls[1][j] = "err"
    /\ \A j \in 1..Len(calls[2]) : IsSettled(2, j)

\* C16: the transport is called at most once for each entry of the recipient list, in
\* list order, and exactly once by the end of the job: the log of transporter.sendMail
\* calls is a prefix of the list and, when sendBulkEmails returns, the list itself; a
\* failed delivery is not sent again.
C16_OneAttempt ==
    /\ Len(sent) <= Len(emailList)
    /\ \A n \in 1..Len(sent) : n <= Len(emailList) /\ sent[n] = emailList[n]
    /\ spc = "done" => sent = emailList
    /\ Len(sent) = Cardinality({e \in Entries : calls[e[1]][e[2]] # "none"})

\* C16 witness: a finished job with a failed delivery, each entry sent once
C16_Witness ==
    /\ spc = "done"
    /\ Len(emailList) > BATCH_SIZE
    /\ FailureCount(results) > 0
    /\ Len(sent) = Len(emailList)

\* C17: an Immediate-mode caller never sees a partial report: while the handler awaits
\* sendBulkEmails nothing has been answered, and the report it then gets is the complete
\* one: all N outcomes, every attempt of every batch settled, nothing in flight.
C17_NoPartialReport ==
    /\ hpc = "awaitBulk" => response.kind = "none"
    /\ response.hasResults =>
          /\ spc = "done"
          /\ InFlight = 0
          /\ \A k \in 1..Len(calls) : \A j \in 1..Len(calls[k]) : IsSettled(k, j)
          /\ Len(response.results) = Len(emailList)
          /\ response.results = results
          /\ response.total = Len(emailList)

\* C17 witness: the report of a two-batch Immediate job
C17_Witness ==
    /\ response.hasResults
    /\ Len(batches) = 2
    /\ Len(response.results) = Len(emailList)

\* the request fails one of the checks that precede dispatch
RejectedRequest ==
    /\ hpc # "direct"
    /\ \/ ~req.fieldsOk
       \/ ~req.postExists
       \/ (~req.sendToAll /\ req.userIds = {})

\* C20: a request rejected for missing fields (400), an unknown post (404) or no
\* recipient selection (400) gets that error and nothing else: sendBulkEmails is never
\* invoked for it and no transport call is issued.
C20_FailuresPrecedeDispatch ==
    RejectedRequest =>
        /\ spc = "idle"
        /\ sent = << >>
        /\ ~AnyIssued
        /\ response.kind # "success"
        /\ hpc = "finished" =>
              /\ response.kind = "error"
              /\ response.status = (IF ~req.fieldsOk THEN 400
                                    ELSE IF ~req.postExists THEN 404 ELSE 400)
              /\ response.msg = (IF ~req.fieldsOk THEN "required"
                                 ELSE IF ~req.postExists THEN "postNotFound"
                                 ELSE "noSelection")

\* C20 witness: a request with neither sendToAll nor userIds has been answered 400
C20_Witness ==
    /\ RejectedRequest
    /\ req.fieldsOk /\ req.postExists
    /\ hpc = "finished"
    /\ response.status = 400
    /\ response.msg = "noSelection"

\* a job handed to sendBulkEmails by sendNotification
HandlerJob == hpc # "direct" /\ Len(emailList) >= 1

\* C14: as stated: every started job eventually reaches Completed: sendBulkEmails
\* eventually resolves.  (It does not when createTransporter throws: the promise is
\* rejected and stays so.)
C14_EventuallyResolves == (spc = "create") ~> (spc = "done")

\* C14 amended: every started job eventually ends: sendBulkEmails resolves with every
\* batch attempted whenever the transporter can be created, and is rejected before any
\* batch otherwise; in Immediate mode the caller eventually receives a response.
C14_EventuallyEnds ==
    /\ (spc = "create") ~> (spc \in {"done", "rejected"})
    /\ (spc = "create" /\ smtpOk) ~> AllBatchesCompleted
    /\ (hpc = "awaitBulk") ~> (response.kind # "none")

\* C14 witness: an Immediate job of two batches has completed and been answered
C14_Witness ==
    /\ hpc = "finished"
    /\ response.hasResults
    /\ AllBatchesCompleted
    /\ Len(batches) = 2
    /\ delays = 1

\* C15: as stated: past resolution and rendering a job never ends failed, and the
\* Immediate caller always receives a report.  (createTransporter throws when the SMTP
\* credentials are missing; the handler's catch answers 500.)
C15_NoJobLevelFailure ==
    HandlerJob => (spc # "rejected" /\ response.status # 500)

\* C15 amended: past resolution and rendering a job ends failed only when
\* createTransporter throws, before any batch is formed or call issued: the Immediate
\* caller then receives the 500 and no report.  Once the transporter exists the job
\* cannot fail: only outcomes do, and the Immediate caller always receives the report.
C15_FailureOnlyAtSetup ==
    HandlerJob =>
        /\ spc = "rejected" => (~smtpOk /\ ~AnyIssued /\ batches = << >> /\ results = << >>)
        /\ response.status = 500 => (~smtpOk /\ spc = "rejected" /\ ~IsBackground(emailList))
        /\ (~IsBackground(emailList) /\ response.kind # "none") =>
              IF smtpOk
              THEN response.kind = "success" /\ response.hasResults
              ELSE response.kind = "error" /\ response.status = 500 /\ ~response.hasResults

\* C15 witness: every delivery of an Immediate job failed and the caller got the report
C15_Witness ==
    /\ HandlerJob
    /\ response.hasResults
    /\ response.failed = Len(emailList)
    /\ response.success = 0

\* the failed job: the Immediate caller got the 500
C15_WitnessSetupFailure == HandlerJob /\ response.status = 500 /\ spc = "rejected"

\* C18: in Background mode the caller's response is the acknowledgement and stays it:
\* recipient count and processing marker, no outcomes, no success or failure counts;
\* when the detached run has finished or failed its result is in the log only.
C18_BackgroundResultsLogged ==
    /\ (hpc # "direct" /\ IsBackground(emailList) /\ response.kind # "none") =>
          /\ response = AckResponse
          /\ response.processing
          /\ response.total = Len(emailList)
          /\ ~response.hasResults
          /\ response.results = << >>
          /\ response.success = Absent
          /\ response.failed = Absent
    /\ bgLog.kind # "none" => (response.processing /\ hpc = "finished")
    /\ bgLog.kind = "tally" =>
          /\ spc = "done"
          /\ bgLog.success = SuccessCount(results)
          /\ bgLog.failed = FailureCount(results)
    /\ bgLog.kind = "error" => spc = "rejected"

\* C18 witness: the detached run has finished and logged its tally; the caller still
\* holds the acknowledgement
C18_Witness ==
    /\ bgLog.kind = "tally"
    /\ bgLog.failed > 0
    /\ response.processing
    /\ ~response.hasResults

\* C19: in Background mode the run is detached: once the caller has its acknowledgement
\* and the handler is over, the scheduler is never stopped short: until it has returned
\* (or was rejected at transporter creation) a step of it stays possible, and when it
\* returns every batch and every recipient has been attempted.
C19_Detached ==
    (response.processing /\ hpc = "finished") =>
        /\ spc \in {"done", "rejected"} \/ ENABLED SchedNext
        /\ spc = "rejected" => ~smtpOk
        /\ spc = "done" =>
              /\ batchIndex = Len(batches)
              /\ sent = emailList
              /\ Len(results) = Len(emailList)

\* C19 witness: after the acknowledgement the detached run went on to its last batch
C19_Witness ==
    /\ response.processing
    /\ hpc = "finished"
    /\ batchIndex = Len(batches) - 1
    /\ batchIndex >= 1
    /\ spc = "awaitBatch"
    /\ InFlight > 0

\* the batch sizes, in order
BatchSizes == [k \in 1..Len(batches) |-> Len(batches[k])]

\* time spent in inter-batch pauses, in ms
PausedMs == delays * DELAY_BETWEEN_BATCHES

\* the addresses whose outcome in rs is a failure
FailedAddresses(rs) == {rs[i].email : i \in {n \in 1..Len(rs) : ~rs[n].success}}

\* C21: with the code's constants (50, 10, 2000 ms, 500) a job of 120 recipients whose
\* transport fails for exactly 3 fixed addresses runs in Immediate mode (no
\* acknowledgement, the handler awaits the run) as 3 batches of sizes 50, 50, 20 with
\* exactly two pauses of 2000 ms, and the report has total 120, 117 successes and
\* 3 failures, the failures being the three addresses.
C21_EndToEndExample ==
    /\ tuning = CodeTuning
    /\ hpc \in {"dispatch", "awaitBulk", "finished"}
    /\ ~response.processing
    /\ bgLog = NoLog
    /\ spc \notin {"idle", "create", "split"} => BatchSizes = <<50, 50, 20>>
    /\ spc # "rejected"
    /\ delays <= 2
    /\ spc = "done" => (delays = 2 /\ PausedMs = 4000)
    /\ hpc = "finished" =>
          /\ response.kind = "success"
          /\ response.hasResults
          /\ response.total = 120
          /\ response.success = 117
          /\ response.failed = 3
          /\ Len(response.results) = 120
          /\ FailedAddresses(response.results) = ExampleFailing

\* C21 witness: the report of the example has been returned after three batches and
\* two pauses
C21_Witness ==
    /\ tuning = CodeTuning
    /\ hpc = "finished"
    /\ response.hasResults
    /\ response.total = 120 /\ response.success = 117 /\ response.failed = 3
    /\ Len(batches) = 3
    /\ delays = 2

\* the address and the call of position n of the list (n-th entry in batch order)
BatchOfPosition(n) == ((n - 1) \div BATCH_SIZE) + 1
EntryOfPosition(n) == ((n - 1) % BATCH_SIZE) + 1

\* the number of transporter.sendMail calls made when the scheduler stands at
\* (spc, batchIndex, gi): the batches before the current one, and of the current one the
\* groups before gi
IssuedAt ==
    IF spc \in {"loop", "done"} THEN SumLen(batches, batchIndex)
    ELSE IF spc = "issue" THEN SumLen(batches, batchIndex) + Min(gi, Len(CurrentBatch))
    ELSE SumLen(batches, batchIndex + 1)

\* the pauses taken when the scheduler stands at (spc, batchIndex)
PausesAt ==
    IF spc = "delaying" THEN batchIndex + 1
    ELSE IF Len(batches) = 0 THEN 0
    ELSE Min(batchIndex, Len(batches) - 1)

\* the run of a Background job: started by the handler, answered by the acknowledgement
BackgroundRun == hpc \in {"ack", "finished"} /\ IsBackground(emailList) /\ spc # "idle"

\* the run of an Immediate job: started by the handler, which awaits it
ImmediateRun == hpc \in {"awaitBulk", "finished"} /\ ~IsBackground(emailList) /\ spc # "idle"

\* C22: dispatch does not depend on the mode: wherever sendBulkEmails stands, its
\* batches, the calls it has made (which, in which groups, in which order), its pauses
\* and its outcome list are one and the same function of the recipient list, of the
\* transport's answers and of the position reached, whether the run is awaited
\* (Immediate), detached (Background) or called directly; the modes differ in the
\* caller's answer only: the report after the run, or the acknowledgement before any
\* outcome and the tally in the log.
C22_ModeIndependence ==
    /\ spc \notin {"idle", "create", "split", "rejected"} =>
          /\ batches = SplitBatches(emailList, BATCH_SIZE)
          /\ Len(calls) = Len(batches)
          /\ \A n \in 1..Len(emailList) :
                LET k == BatchOfPosition(n)
                    j == EntryOfPosition(n)
                IN  /\ batches[k][j] = emailList[n]
                    /\ (calls[k][j] # "none") = (n <= IssuedAt)
                    /\ IsSettled(k, j) => settled[k][j] = Outcome(emailList[n], calls[k][j])
                    /\ n <= AttemptedSoFar =>
                          /\ IsSettled(k, j)
                          /\ results[n] = Outcome(emailList[n], calls[k][j])
          /\ sent = SubSeq(emailList, 1, IssuedAt)
          /\ spc = "issue" => gi % CONCURRENT_PER_BATCH = 0
          /\ Len(results) = AttemptedSoFar
          /\ delays = PausesAt
    /\ ImmediateRun =>
          /\ bgLog = NoLog
          /\ response.kind # "none" => spc \in {"done", "rejected"}
          /\ response.hasResults => response.results = results
    /\ BackgroundRun =>
          /\ ~response.hasResults
          /\ (AnySettled \/ results # << >>) => response.processing
          /\ bgLog.kind = "tally" => bgLog.success = SuccessCount(results)

\* C22 witness: a detached run has gone through two batches and one pause, with a
\* failure and a success among its outcomes
C22_Witness ==
    /\ BackgroundRun
    /\ spc = "done"
    /\ Len(batches) = 2
    /\ delays = 1
    /\ SuccessCount(results) > 0
    /\ FailureCount(results) > 0

\* the awaited run of the same shape
C22_WitnessImmediate ==
    /\ ImmediateRun
    /\ spc = "done"
    /\ Len(batches) = 2
    /\ delays = 1
    /\ SuccessCount(results) > 0
    /\ FailureCount(results) > 0

\* the batches whose outcomes are in results hold no unsettled call
CollectedBatchesSettled ==
    \A k \in 1..Len(calls) : k <= BatchesCollected =>
        \A j \in 1..Len(calls[k]) : IsSettled(k, j)

\* C23: no outcome before its attempt settles: a callback has returned an outcome for an
\* entry only when that entry's own transport call has settled, and then the outcome of
\* that call; the outcomes of a batch are appended to results (and reach the report or
\* the tally) only once every member of the batch has settled: while a member of the
\* current batch is unsettled, results holds the earlier batches only.
C23_NoOutcomeBeforeSettle ==
    /\ \A k \in 1..Len(calls) : \A j \in 1..Len(calls[k]) :
          /\ settled[k][j] # NoOutcome => IsSettled(k, j)
          /\ ~IsSettled(k, j) => settled[k][j] = NoOutcome
    /\ spc \notin {"idle", "create", "split", "rejected"} =>
          /\ Len(results) = AttemptedSoFar
          /\ CollectedBatchesSettled
          /\ \A n \in 1..Len(results) :
                /\ results[n] # NoOutcome
                /\ results[n] = settled[BatchOfPosition(n)][EntryOfPosition(n)]
          /\ (spc \in {"issue", "awaitBatch"}) => Len(results) = SumLen(batches, batchIndex)
    /\ response.hasResults => \A n \in 1..Len(response.results) : response.results[n] # NoOutcome
    /\ bgLog.kind = "tally" => \A n \in 1..Len(results) : results[n] # NoOutcome

\* C23 witness: in the second batch one call has settled and another is in flight; results
\* holds the first batch only
C23_Witness ==
    /\ spc = "awaitBatch"
    /\ batchIndex = 1
    /\ \E j \in 1..Len(calls[2]) : IsSettled(2, j)
    /\ \E j \in 1..Len(calls[2]) : calls[2][j] = "inflight"
    /\ Len(results) = Len(batches[1])

\* outcome i of rs refers to the address of entry i of the list
Aligned(rs) ==
    /\ Len(rs) <= Len(emailList)
    /\ \A i \in 1..Len(rs) : rs[i].email = emailList[i]

\* C24: the outcome list is positionally aligned with the input list: for every index i,
\* outcome i refers to the address of entry i and carries the result of the call made for
\* entry i, in whatever order the calls settle; the returned list has one outcome per
\* entry, so an address listed twice is sent to twice and has two outcomes.
C24_PositionalAlignment ==
    /\ Aligned(results)
    /\ \A n \in 1..Len(results) :
          results[n].success = (calls[BatchOfPosition(n)][EntryOfPosition(n)] = "ok")
    /\ spc = "done" =>
          /\ Len(results) = Len(emailList)
          /\ EmailsOf(results) = emailList
          /\ sent = emailList
    /\ response.hasResults => EmailsOf(response.results) = emailList

\* C24 witness: the first two entries of the list are the same address; its two calls
\* ended differently and the list returned holds both outcomes, each at its own index
C24_Witness ==
    /\ spc = "done"
    /\ Len(emailList) > BATCH_SIZE
    /\ emailList[1] = emailList[2]
    /\ results[1].email = results[2].email
    /\ results[1].success
    /\ ~results[2].success

\* a later entry's call has settled before an earlier one's
C24_WitnessOutOfOrder ==
    /\ spc = "awaitBatch"
    /\ calls[batchIndex + 1][1] = "inflight"
    /\ IsSettled(batchIndex + 1, Len(CurrentBatch))

C26_SetupFailure ==
    ~smtpOk =>
        /\ ~AnyIssued
        /\ sent = << >>
        /\ batches = << >>
        /\ results = << >>
        /\ spc \in {"idle", "create", "rejected"}
        /\ (hpc = "finished" /\ Len(emailList) >= 1 /\ ~IsBackground(emailList)) =>
              /\ response = ErrorResponse(500, "sendFailed", Absent)
              /\ ~response.hasResults
              /\ bgLog = NoLog
        /\ (hpc = "finished" /\ Len(emailList) >= 1 /\ IsBackground(emailList)) =>
              /\ response = AckResponse
              /\ response.kind = "success"
              /\ response.processing
              /\ spc = "rejected"
              /\ bgLog.kind \in {"none", "error"}
        /\ bgLog.kind # "tally"

\* C26 witness: without SMTP credentials a Background caller holds the acknowledgement
\* and the log holds the error; nothing was sent
C26_Witness ==
    /\ ~smtpOk
    /\ IsBackground(emailList)
    /\ response.kind = "success"
    /\ response.processing
    /\ bgLog.kind = "error"
    /\ sent = << >>

\* the Immediate side: the caller got the 500
C26_WitnessImmediate ==
    /\ ~smtpOk
    /\ hpc = "finished"
    /\ Len(emailList) >= 1
    /\ ~IsBackground(emailList)
    /\ response.status = 500
    /\ sent = << >>

\* the one response the path of the request leads to
ExpectedResponse ==
    IF ~req.fieldsOk THEN ErrorResponse(400, "required", Absent)
    ELSE IF ~req.postExists THEN ErrorResponse(404, "postNotFound", Absent)
    ELSE IF ~req.sendToAll /\ req.userIds = {} THEN ErrorResponse(400, "noSelection", Absent)
    ELSE IF Len(users) = 0 THEN ErrorResponse(404, "noVerified", NoVerifiedText(unverifiedCount))
    ELSE IF IsBackground(emailList) THEN AckResponse
    ELSE IF ~smtpOk THEN ErrorResponse(500, "sendFailed", Absent)
    ELSE ReportResponse(results)

\* C27: every request produces exactly one caller-visible result on every path: nothing
\* is answered while the handler is under way, the handler ends with the one response
\* of its path (400 required fields, 404 post, 400 no selection, 404 no verified user,
\* acknowledgement, report, 500), and a response once given is never followed by
\* another: not an error and then a success, not a second one when the detached run
\* later completes or fails.
C27_ExactlyOneResponse ==
    /\ [](hpc # "direct" => ((hpc = "finished") <=> (response.kind # "none")))
    /\ [](hpc = "direct" => response.kind = "none")
    /\ [](hpc = "finished" => response = ExpectedResponse)
    /\ [][response.kind # "none" => response' = response]_vars

\* C27 witness: the detached run has ended and logged; the caller holds the one
\* acknowledgement it was given
C27_Witness ==
    /\ hpc = "finished"
    /\ response = AckResponse
    /\ spc \in {"done", "rejected"}
    /\ bgLog.kind # "none"

\* user u may be sent to by this request
Eligible(u) ==
    /\ u \in Users
    /\ userDB[u].active
    /\ userDB[u].verified
    /\ (~req.sendToAll => u \in req.userIds)

\* C28: every address sendNotification hands to sendBulkEmails, and so every address a
\* transport call is issued for, is that of a user who was active and email-verified
\* when the recipients were resolved, and in the userIds branch one of the requested
\* ids; an unverified or inactive user gets no attempt and no outcome, in either mode.
C28_Eligibility ==
    hpc # "direct" =>
        /\ \A n \in 1..Len(users) : Eligible(users[n])
        /\ \A n \in 1..Len(emailList) : Eligible(emailList[n])
        /\ \A n \in 1..Len(sent) : Eligible(sent[n])
        /\ \A n \in 1..Len(results) : Eligible(results[n].email)
        /\ \A u \in Users : \A n \in 1..Len(sent) :
              (~userDB[u].active \/ ~userDB[u].verified) => sent[n] # EmailOf(u)

\* C28 witness: a Background run over every eligible user is over; an active user with
\* an unverified email was left out
C28_Witness ==
    /\ BackgroundRun
    /\ spc = "done"
    /\ sent = emailList
    /\ unverifiedCount > 0
    /\ \E u \in Users : userDB[u].active /\ ~userDB[u].verified

\* the userIds branch: a requested user was left out as unverified, another as inactive,
\* and an eligible user as not requested
C28_WitnessSelected ==
    /\ ImmediateRun
    /\ ~req.sendToAll
    /\ spc = "done"
    /\ sent = emailList
    /\ \E u \in req.userIds : ~userDB[u].active
    /\ \E u \in req.userIds : userDB[u].active /\ ~userDB[u].verified
    /\ \E u \in Users \ req.userIds : userDB[u].active /\ userDB[u].verified

\* the active users the request selects: every one, or the requested ones
Requested == IF req.sendToAll THEN ActiveUsers ELSE SelectedUsers(req.userIds)

\* C29: in every success response, immediate or background, total + unverifiedSkipped =
\* totalRequested, total is the number of recipients handed to sendBulkEmails,
\* unverifiedSkipped >= 0 and is the number of selected active users with an unverified
\* email; the counts are set once, by the recipient resolution, before sendBulkEmails
\* is called, and no step of the run changes them.
C29_SkipCount ==
    /\ [](response.kind = "success" =>
              /\ response.total + response.unverifiedSkipped = response.totalRequested
              /\ response.total = Len(emailList)
              /\ response.unverifiedSkipped >= 0
              /\ response.unverifiedSkipped = unverifiedCount
              /\ response.totalRequested = Len(Requested)
              /\ response.unverifiedSkipped = Len(Requested) - Len(VerifiedOf(Requested)))
    /\ [](spc # "idle" /\ hpc # "direct" =>
              /\ Len(users) + unverifiedCount = totalUsers
              /\ unverifiedCount = Len(Requested) - Len(VerifiedOf(Requested))
              /\ Len(emailList) = Len(users))
    /\ [][hpc # "resolve" => UNCHANGED <<users, totalUsers, unverifiedCount>>]_vars
    /\ [][spc # "idle" => UNCHANGED emailList]_vars

\* C29 witness: a Background acknowledgement that reports a skipped user, the run being
\* over
C29_Witness ==
    /\ response.kind = "success"
    /\ response.processing
    /\ response.unverifiedSkipped > 0
    /\ response.total + response.unverifiedSkipped = response.totalRequested
    /\ spc = "done"

\* an Immediate report that reports skipped users
C29_WitnessImmediate ==
    /\ response.hasResults
    /\ response.unverifiedSkipped > 1
    /\ response.total + response.unverifiedSkipped = response.totalRequested

\* the earlier run's calls issued and not yet settled
OtherInFlight ==
    Cardinality({e \in (1..Len(other.calls)) \X (1..BATCH_SIZE + 1) :
                    e[2] <= Len(other.calls[e[1]]) /\ other.calls[e[1]][e[2]] = "inflight"})

\* outcome i of the earlier run refers to entry i of its own list and carries the result
\* of its own call for that entry
OtherAligned ==
    /\ Len(other.results) <= Len(other.list)
    /\ \A n \in 1..Len(other.results) :
          /\ other.results[n].email = other.list[n]
          /\ other.results[n].success =
                (other.calls[BatchOfPosition(n)][EntryOfPosition(n)] = "ok")

\* the pauses the earlier run has taken are those of its own position
OtherPausesAt ==
    IF other.spc = "delaying" THEN other.batchIndex + 1
    ELSE IF Len(other.batches) = 0 THEN 0
    ELSE Min(other.batchIndex, Len(other.batches) - 1)

\* C30: two jobs interleaved: each job's outcome list holds outcomes for its own
\* recipients only, aligned with its own list and carrying its own calls' results, and
\* exactly one per own recipient when the job returns; a step of one job changes no
\* result, batch, call or pause of the other; and neither job waits on the other: a job
\* whose batch has settled resumes, and a job whose pause is over goes on, as soon as
\* the event loop is free, wherever the other job stands.
C30_JobIsolation ==
    /\ [](Aligned(results) /\ OtherAligned)
    /\ [](\A n \in 1..Len(results) :
              results[n].success = (calls[BatchOfPosition(n)][EntryOfPosition(n)] = "ok"))
    /\ [](spc = "done" => (EmailsOf(results) = emailList /\ sent = emailList))
    /\ [](other.spc = "done" =>
              (EmailsOf(other.results) = other.list /\ other.sent = other.list))
    /\ [](spc \notin {"idle", "create", "split", "rejected"} => delays = PausesAt)
    /\ [](other.delays = OtherPausesAt)
    /\ []((spc = "awaitBatch" /\ BatchSettled /\ LoopIdle) => ENABLED ResumeBatch)
    /\ []((spc = "delaying" /\ LoopIdle) => ENABLED TimerFire)
    /\ []((other.spc = "awaitBatch" /\ OtherBatchSettled /\ LoopIdle) => ENABLED OtherResumeBatch)
    /\ []((other.spc = "delaying" /\ LoopIdle) => ENABLED OtherTimerFire)
    /\ [][other' # other => UNCHANGED <<spc, emailList, schedVars>>]_vars
    /\ [][(spc' # spc \/ schedVars' # schedVars) => other' = other]_vars

\* C30 witness: both jobs have calls in flight; the later job is in its second batch
\* while the earlier one is still in its first
C30_Witness ==
    /\ InFlight > 0
    /\ OtherInFlight > 0
    /\ batchIndex = 1
    /\ other.batchIndex = 0

\* both jobs have returned, each with one outcome per own recipient, failures among them
C30_WitnessBothDone ==
    /\ spc = "done"
    /\ other.spc = "done"
    /\ Len(results) = Len(emailList)
    /\ Len(other.results) = Len(other.list)
    /\ FailureCount(results) > 0
    /\ FailureCount(other.results) = 0

====
